---------------------------- MODULE Spec2Model ----------------------------
(***************************************************************************)
(* Resume backend: the education-level resolver (EducationMapper), the     *)
(* derived-field helpers of ResumeService and the resume store (the        *)
(* resumes and resume_educations tables behind ResumeService).             *)
(*                                                                         *)
(* Texts are sequences of characters.  A Latin character is the one-       *)
(* character string; a Hangul syllable is written by its romanisation      *)
(* ("dae" "hak" "gyo" is the three-syllable word for university), since    *)
(* the module is ASCII.  Every multi-letter string is one character.       *)
(***************************************************************************)
EXTENDS Integers, Sequences, FiniteSets, TLC

VARIABLES
    op,        \* SpecFn: the function last called (pure functions of the code)
    arg,       \* SpecFn: its argument; SpecPair: the arguments of the two requests;
               \* SpecUpload: the uploaded file and what the extraction API answers
    ret,       \* SpecFn: what it returned; SpecPair: the results of the two requests;
               \* SpecUpload: how far the handler is, and its response
    resumes,   \* Spec: the committed rows of table resumes
    educations,\* Spec: the committed rows of table resume_educations
    saves,     \* Spec: the save_extracted_resume calls in flight
    nextId,    \* Spec: number of resume ids handed out so far (uuid4 is fresh)
    last,      \* Spec: the call that completed in the last step, with its result
    sessions   \* SpecSession: the requests and the database session of each

fnVars == <<op, arg, ret>>
storeVars == <<resumes, educations, saves, nextId, last>>
sessionVars == <<sessions>>
vars == <<op, arg, ret, resumes, educations, saves, nextId, last, sessions>>

(***************************************************************************)
(* Bounds of the model.                                                    *)
(***************************************************************************)
MaxTextLen == 3      \* length of the exhaustively enumerated texts
MaxEdu == 3          \* education entries in one extraction
MaxWork == 3         \* work entries in one extraction
MaxResumes == 2      \* resume ids handed out
MaxSaves == 2        \* concurrent save_extracted_resume calls
MaxRequests == 3     \* requests that are given a database session

\* Python's None for a dict-valued result, and SQL NULL for a column.
None == [none |-> TRUE]
NULL == "NULL"

(***************************************************************************)
(* Characters and str methods.                                             *)
(***************************************************************************)
Space == " "

UpperToLower ==
    [c \in {"A","B","C","D","E","F","G","H","I","J","K","L","M",
            "N","O","P","Q","R","S","T","U","V","W","X","Y","Z"} |->
        CASE c = "A" -> "a" [] c = "B" -> "b" [] c = "C" -> "c" [] c = "D" -> "d"
          [] c = "E" -> "e" [] c = "F" -> "f" [] c = "G" -> "g" [] c = "H" -> "h"
          [] c = "I" -> "i" [] c = "J" -> "j" [] c = "K" -> "k" [] c = "L" -> "l"
          [] c = "M" -> "m" [] c = "N" -> "n" [] c = "O" -> "o" [] c = "P" -> "p"
          [] c = "Q" -> "q" [] c = "R" -> "r" [] c = "S" -> "s" [] c = "T" -> "t"
          [] c = "U" -> "u" [] c = "V" -> "v" [] c = "W" -> "w" [] c = "X" -> "x"
          [] c = "Y" -> "y" [] c = "Z" -> "z"]

\* str.lower(): upper-case Latin letters are lowered, everything else is kept.
lower(text) ==
    [i \in 1..Len(text) |->
        IF text[i] \in DOMAIN UpperToLower THEN UpperToLower[text[i]] ELSE text[i]]

RECURSIVE lstrip(_)
lstrip(text) ==
    IF text # <<>> /\ Head(text) = Space THEN lstrip(Tail(text)) ELSE text

RECURSIVE rstrip(_)
rstrip(text) ==
    IF text # <<>> /\ text[Len(text)] = Space
    THEN rstrip(SubSeq(text, 1, Len(text) - 1))
    ELSE text

\* str.strip(): leading and trailing whitespace removed.
strip(text) == rstrip(lstrip(text))

\* Python's "keyword in text" on strings.
Contains(text, keyword) ==
    \E i \in 0..(Len(text) - Len(keyword)) :
        SubSeq(text, i + 1, i + Len(keyword)) = keyword


(***************************************************************************)
(* EducationMapper (education_mapper.py).                                  *)
(***************************************************************************)
\* EducationLevel enum values, by tier number.
EDUCATION_LEVEL_MAPPING ==
    [n \in 1..6 |->
        CASE n = 1 -> "elementary" [] n = 2 -> "middle" [] n = 3 -> "high_school"
          [] n = 4 -> "bachelor" [] n = 5 -> "master" [] n = 6 -> "doctorate"]

\* The keyword table, in the insertion order of the dict literal.
EDUCATION_KEYWORDS == <<
    [keyword |-> <<"cho","deung","hak","gyo">>, level |-> 1],
    [keyword |-> <<"cho","deung">>, level |-> 1],
    [keyword |-> <<"e","l","e","m","e","n","t","a","r","y">>, level |-> 1],
    [keyword |-> <<"jung","hak","gyo">>, level |-> 2],
    [keyword |-> <<"jung","deung">>, level |-> 2],
    [keyword |-> <<"m","i","d","d","l","e">>, level |-> 2],
    [keyword |-> <<"go","deung","hak","gyo">>, level |-> 3],
    [keyword |-> <<"go","deung">>, level |-> 3],
    [keyword |-> <<"go","gyo">>, level |-> 3],
    [keyword |-> <<"h","i","g","h"," ","s","c","h","o","o","l">>, level |-> 3],
    [keyword |-> <<"h","i","g","h","s","c","h","o","o","l">>, level |-> 3],
    [keyword |-> <<"dae","hak","gyo">>, level |-> 4],
    [keyword |-> <<"dae","hak">>, level |-> 4],
    [keyword |-> <<"hak","sa">>, level |-> 4],
    [keyword |-> <<"b","a","c","h","e","l","o","r">>, level |-> 4],
    [keyword |-> <<"u","n","i","v","e","r","s","i","t","y">>, level |-> 4],
    [keyword |-> <<"c","o","l","l","e","g","e">>, level |-> 4],
    [keyword |-> <<"hak","bu">>, level |-> 4],
    [keyword |-> <<"4","nyeon","je">>, level |-> 4],
    [keyword |-> <<"4","nyeon">>, level |-> 4],
    [keyword |-> <<"seok","sa">>, level |-> 5],
    [keyword |-> <<"m","a","s","t","e","r">>, level |-> 5],
    [keyword |-> <<"dae","hak","won">>, level |-> 5],
    [keyword |-> <<"seok","sa","gwa","jeong">>, level |-> 5],
    [keyword |-> <<"m","a","s","t","e","r","s">>, level |-> 5],
    [keyword |-> <<"bak","sa">>, level |-> 6],
    [keyword |-> <<"d","o","c","t","o","r","a","t","e">>, level |-> 6],
    [keyword |-> <<"p","h","d">>, level |-> 6],
    [keyword |-> <<"bak","sa","gwa","jeong">>, level |-> 6],
    [keyword |-> <<"d","o","c","t","o","r">>, level |-> 6] >>

\* A pattern list one of whose alternatives ("won") is no keyword of the table.
patternsWithOtherAlternative == <<
    [alternatives |-> {<<"cho","deung">>}, level |-> 1],
    [alternatives |-> {<<"jung","deung">>, <<"jung","hak","gyo">>}, level |-> 2],
    [alternatives |-> {<<"go","deung">>, <<"go","gyo">>,
                       <<"go","deung","hak","gyo">>}, level |-> 3],
    [alternatives |-> {<<"dae","hak">>, <<"hak","sa">>, <<"4","nyeon","je">>},
     level |-> 4],
    [alternatives |-> {<<"seok","sa">>, <<"m","a","s","t","e","r">>, <<"won">>},
     level |-> 5],
    [alternatives |-> {<<"bak","sa">>, <<"p","h","d">>,
                       <<"d","o","c","t","o","r">>}, level |-> 6] >>

\* The regex patterns of the second stage: each is a list of alternatives, and
\* re.search of a|b finds a match iff one alternative occurs in the text.
patterns == <<
    [alternatives |-> {<<"cho","deung">>}, level |-> 1],
    [alternatives |-> {<<"jung","deung">>, <<"jung","hak","gyo">>}, level |-> 2],
    [alternatives |-> {<<"go","deung">>, <<"go","gyo">>,
                       <<"go","deung","hak","gyo">>}, level |-> 3],
    [alternatives |-> {<<"dae","hak">>, <<"hak","sa">>, <<"4","nyeon","je">>},
     level |-> 4],
    [alternatives |-> {<<"seok","sa">>, <<"m","a","s","t","e","r">>}, level |-> 5],
    [alternatives |-> {<<"bak","sa">>, <<"p","h","d">>,
                       <<"d","o","c","t","o","r">>}, level |-> 6] >>

re_search(pattern, text) == \E alt \in pattern.alternatives : Contains(text, alt)

\* A keyword loop that answers with the highest tier among the hits.
KeywordStageHighest(text_lower) ==
    LET hits == {i \in 1..Len(EDUCATION_KEYWORDS) :
                    Contains(text_lower, EDUCATION_KEYWORDS[i].keyword)}
    IN  IF hits = {} THEN 0
        ELSE EDUCATION_KEYWORDS[CHOOSE i \in hits : \A j \in hits : i >= j].level

\* The keyword loop: the level of the first keyword, in table order, that
\* occurs in the text; 0 when the loop ends without a hit.
KeywordStage(text_lower) ==
    LET hits == {i \in 1..Len(EDUCATION_KEYWORDS) :
                    Contains(text_lower, EDUCATION_KEYWORDS[i].keyword)}
    IN  IF hits = {} THEN 0
        ELSE EDUCATION_KEYWORDS[CHOOSE i \in hits : \A j \in hits : i <= j].level

\* The pattern loop: the level of the first pattern that matches; 0 when none.
PatternStage(text_lower) ==
    LET hits == {i \in 1..Len(patterns) : re_search(patterns[i], text_lower)}
    IN  IF hits = {} THEN 0
        ELSE patterns[CHOOSE i \in hits : \A j \in hits : i <= j].level

\* extract_education_level on the lowered and stripped text.
LevelOfLowered(text_lower) ==
    LET level == KeywordStage(text_lower)
    IN  IF level # 0 THEN level ELSE PatternStage(text_lower)

extract_education_level(text) ==
    IF text = <<>> THEN 0 ELSE LevelOfLowered(strip(lower(text)))

get_education_level_enum(level) ==
    IF level \in DOMAIN EDUCATION_LEVEL_MAPPING
    THEN EDUCATION_LEVEL_MAPPING[level] ELSE NULL

Max2(a, b) == IF a >= b THEN a ELSE b

\* A choice that takes the institution's level whenever it has one.
FinalLevelInstitutionFirst(level_from_institution, level_from_degree) ==
    IF level_from_institution # 0 THEN level_from_institution ELSE level_from_degree

\* The level chosen for an entry before the default is applied.
FinalLevel(level_from_institution, level_from_degree) ==
    Max2(level_from_institution, level_from_degree)

\* Mutant of DefaultLevel: the unclassified entry keeps level 0.
DefaultLevelKeepsZero(final_level) == final_level

\* The default tier (bachelor) an unclassified entry gets.
DefaultLevel(final_level) == IF final_level = 0 THEN 4 ELSE final_level

parse_education_info(education_data) ==
    LET institution == education_data.institution
        degree == education_data.degree
        final_level ==
            DefaultLevel(FinalLevel(extract_education_level(institution),
                                    extract_education_level(degree)))
    IN  [institution_name |-> institution,
         education_level |-> get_education_level_enum(final_level),
         level_number |-> final_level]

\* Mutant of InsertDesc: x goes in front of the elements of equal key, which is
\* what sorting ascending and reversing the result would do.
RECURSIVE InsertDescUnstable(_, _)
InsertDescUnstable(x, sorted) ==
    IF sorted = <<>> THEN <<x>>
    ELSE IF Head(sorted).level_number > x.level_number
         THEN <<Head(sorted)>> \o InsertDescUnstable(x, Tail(sorted))
         ELSE <<x>> \o sorted

\* sorted(..., key=level_number, reverse=True): Python's sort is stable, and
\* with reverse=True equal keys keep their original relative order.  Insert
\* puts x behind every element whose key is at least x's.
RECURSIVE InsertDesc(_, _)
InsertDesc(x, sorted) ==
    IF sorted = <<>> THEN <<x>>
    ELSE IF Head(sorted).level_number >= x.level_number
         THEN <<Head(sorted)>> \o InsertDesc(x, Tail(sorted))
         ELSE <<x>> \o sorted

RECURSIVE SortedDesc(_)
SortedDesc(list) ==
    IF list = <<>> THEN <<>>
    ELSE InsertDesc(list[Len(list)], SortedDesc(SubSeq(list, 1, Len(list) - 1)))

\* Mutant of find_highest_education: the first entry, unsorted.
FindFirstEducation(education_list) ==
    IF education_list = <<>> THEN None ELSE education_list[1]

find_highest_education(education_list) ==
    IF education_list = <<>> THEN None ELSE SortedDesc(education_list)[1]

\* A field value that is not a str and is truthy (an int, a list): .lower()
\* of extract_education_level raises AttributeError on it.
NotAStr == <<"<not a str>">>

\* Whether parse_education_info raises on the entry.
\* A parse that also raises on an entry without a degree.
ParseRaisesOnEmptyDegree(education_data) ==
    \/ education_data.institution = NotAStr
    \/ education_data.degree = NotAStr
    \/ education_data.degree = <<>>

ParseRaises(education_data) ==
    education_data.institution = NotAStr \/ education_data.degree = NotAStr

\* A loop that ends at the first entry that raises.
RECURSIVE ParseAllUntilRaise(_)
ParseAllUntilRaise(education_data_list) ==
    IF education_data_list = <<>> THEN <<>>
    ELSE IF ParseRaises(Head(education_data_list)) THEN <<>>
    ELSE <<parse_education_info(Head(education_data_list))>>
            \o ParseAllUntilRaise(Tail(education_data_list))

\* The loop of process_education_data: "try: parsed_edu =
\* parse_education_info(edu_data); parsed_educations.append(parsed_edu)
\* except Exception: continue".  The entries built from ExtractedEducation
\* have str fields and do not raise.
RECURSIVE ParseAll(_)
ParseAll(education_data_list) ==
    IF education_data_list = <<>> THEN <<>>
    ELSE IF ParseRaises(Head(education_data_list))
    THEN ParseAll(Tail(education_data_list))
    ELSE <<parse_education_info(Head(education_data_list))>>
            \o ParseAll(Tail(education_data_list))

process_education_data(education_data_list) ==
    IF education_data_list = <<>>
    THEN [parsed_educations |-> <<>>, final_education |-> None]
    ELSE LET parsed_educations == ParseAll(education_data_list)
         IN  [parsed_educations |-> parsed_educations,
              final_education |-> find_highest_education(parsed_educations)]

(***************************************************************************)
(* ResumeService: the derived fields (resume_service.py).                  *)
(***************************************************************************)
Digits == {"0","1","2","3","4","5","6","7","8","9"}

DigitValue(c) ==
    CASE c = "0" -> 0 [] c = "1" -> 1 [] c = "2" -> 2 [] c = "3" -> 3 [] c = "4" -> 4
      [] c = "5" -> 5 [] c = "6" -> 6 [] c = "7" -> 7 [] c = "8" -> 8 [] c = "9" -> 9

\* str.split(sep)[0]: the text before the first separator.
RECURSIVE BeforeFirst(_, _)
BeforeFirst(text, sep) ==
    IF text = <<>> \/ Head(text) = sep THEN <<>>
    ELSE <<Head(text)>> \o BeforeFirst(Tail(text), sep)

\* str.split(sep): the parts between the separators, always at least one.
RECURSIVE split(_, _)
split(text, sep) ==
    IF \A i \in 1..Len(text) : text[i] # sep THEN <<text>>
    ELSE <<BeforeFirst(text, sep)>>
            \o split(SubSeq(text, Len(BeforeFirst(text, sep)) + 2, Len(text)), sep)

\* int(s) of a str: surrounding whitespace and one leading "+" are accepted
\* (a "-" never reaches int here, the period was split on it); anything but
\* a non-empty run of digits after that raises ValueError.
IntBody(s) == IF strip(s) # <<>> /\ Head(strip(s)) = "+" THEN Tail(strip(s)) ELSE strip(s)

IntRaises(s) == IntBody(s) = <<>> \/ \E i \in 1..Len(IntBody(s)) : IntBody(s)[i] \notin Digits

RECURSIVE DigitsValue(_)
DigitsValue(ds) ==
    IF ds = <<>> THEN 0
    ELSE 10 * DigitsValue(SubSeq(ds, 1, Len(ds) - 1)) + DigitValue(ds[Len(ds)])

int(s) == DigitsValue(IntBody(s))

\* A year token that keeps the digits of the month part.
YearTokenWithMonth(side) == SelectSeq(side, LAMBDA c : c # ".")

\* int(x.split('.')[0]) if '.' in x else int(x)
YearToken(side) == IF Contains(side, <<".">>) THEN BeforeFirst(side, ".") ELSE side

\* Mutant of MonthsOf: both the start and the end year are counted.
MonthsOfInclusive(period) ==
    IF period = <<>> THEN 0
    ELSE LET period_parts == split(period, "-")
         IN  IF Len(period_parts) # 2 THEN 0
             ELSE LET start_str == strip(period_parts[1])
                      end_str == strip(period_parts[2])
                  IN  IF IntRaises(YearToken(start_str)) \/ IntRaises(YearToken(end_str))
                      THEN 12
                      ELSE (int(YearToken(end_str)) - int(YearToken(start_str)) + 1) * 12

\* The months one work entry adds to total_months.
\*   empty period: the entry is skipped;
\*   split('-') gives other than 2 parts: nothing is added, nothing raises;
\*   2 parts and int() raises on either: the except branch adds 12;
\*   else (end_year - start_year) * 12.
MonthsOf(period) ==
    IF period = <<>> THEN 0
    ELSE LET period_parts == split(period, "-")
         IN  IF Len(period_parts) # 2 THEN 0
             ELSE LET start_str == strip(period_parts[1])
                      end_str == strip(period_parts[2])
                  IN  IF IntRaises(YearToken(start_str)) \/ IntRaises(YearToken(end_str))
                      THEN 12
                      ELSE (int(YearToken(end_str)) - int(YearToken(start_str))) * 12

RECURSIVE TotalMonths(_)
TotalMonths(work_experience_list) ==
    IF work_experience_list = <<>> THEN 0
    ELSE MonthsOf(Head(work_experience_list).period)
            + TotalMonths(Tail(work_experience_list))

\* round(total_months / 12, 1), in tenths of a year (6.0 is 60): the nearest
\* tenth, a tie going to the even one.  \div and % round towards minus
\* infinity, so the same rule serves a negative total.
RoundTenths(total_months) ==
    LET n == total_months * 10
        q == n \div 12
        r == n % 12
    IN  IF r < 6 THEN q
        ELSE IF r > 6 THEN q + 1
        ELSE IF q % 2 = 0 THEN q ELSE q + 1

_calculate_experience_years(work_experience_list) ==
    IF work_experience_list = <<>> THEN 0
    ELSE RoundTenths(TotalMonths(work_experience_list))

\* json.dumps of a str with ensure_ascii=False: the text between double
\* quotes, a double quote and a backslash each behind a backslash.
RECURSIVE JsonEscape(_)
JsonEscape(text) ==
    IF text = <<>> THEN <<>>
    ELSE (IF Head(text) \in {"\"", "\\"} THEN <<"\\", Head(text)>> ELSE <<Head(text)>>)
            \o JsonEscape(Tail(text))

JsonString(text) == <<"\"">> \o JsonEscape(text) \o <<"\"">>

\* The items of a list, separated by ", ".
RECURSIVE JsonItems(_)
JsonItems(list) ==
    IF list = <<>> THEN <<>>
    ELSE IF Len(list) = 1 THEN JsonString(list[1])
    ELSE JsonString(list[1]) \o <<",", " ">> \o JsonItems(Tail(list))

\* json.dumps(list of str, ensure_ascii=False).
json_dumps(list) == <<"[">> \o JsonItems(list) \o <<"]">>

\* "if work.company: previous_companies.append(work.company)" over the
\* entries given: the non-empty companies, in order.
RECURSIVE CompaniesOf(_)
CompaniesOf(work_experience_list) ==
    IF work_experience_list = <<>> THEN <<>>
    ELSE (IF Head(work_experience_list).company # <<>>
          THEN <<Head(work_experience_list).company>> ELSE <<>>)
            \o CompaniesOf(Tail(work_experience_list))

\* A collection that takes in the latest entry, work_experience_list[0], too.
ExtractAllCompanies(work_experience_list) ==
    IF work_experience_list = <<>> \/ Len(work_experience_list) <= 1 THEN <<>>
    ELSE IF CompaniesOf(work_experience_list) # <<>>
         THEN <<json_dumps(CompaniesOf(work_experience_list))>>
         ELSE <<>>

\* _extract_previous_companies: None (no text) for fewer than two entries;
\* else the truthy companies of work_experience_list[1:], serialized, or None
\* when there is none.
_extract_previous_companies(work_experience_list) ==
    IF work_experience_list = <<>> \/ Len(work_experience_list) <= 1 THEN <<>>
    ELSE LET previous_companies == CompaniesOf(Tail(work_experience_list))
         IN  IF previous_companies # <<>> THEN <<json_dumps(previous_companies)>>
             ELSE <<>>

(***************************************************************************)
(* Inputs of the pure functions.                                           *)
(***************************************************************************)
SeqsUpTo(S, n) == UNION {[1..k -> S] : k \in 0..n}

KeywordTexts == {EDUCATION_KEYWORDS[i].keyword : i \in 1..Len(EDUCATION_KEYWORDS)}

SeoulUniversity == <<"seo","ul","dae","hak","gyo">>
HankukHighSchool == <<"han","guk","go","deung","hak","gyo">>
KaistGraduateSchool == <<"K","A","I","S","T"," ","dae","hak","won">>
Mit == <<"M","I","T">>
Graduated == <<"jol","eop">>

SampleTexts ==
    { SeoulUniversity, HankukHighSchool, KaistGraduateSchool, Mit, Graduated,
      <<" ">>, <<" ","P","h","D"," ">>,
      <<"H","i","g","h"," ","S","c","h","o","o","l">>,
      <<"M","a","s","t","e","r"," ","o","f"," ","A","r","t","s">>,
      <<"dae","hak","gyo"," ","seok","sa">>,
      <<"seok","bak","sa"," ","tong","hap">> }

\* Every text of at most MaxTextLen of these syllables.
TextAlphabet == {"dae", "hak", "won", "sa"}
ShortTexts == SeqsUpTo(TextAlphabet, MaxTextLen)

InputTexts == KeywordTexts \cup SampleTexts \cup ShortTexts

PoolInstitutions == {SeoulUniversity, HankukHighSchool, Mit}
PoolDegrees == {<<>>, <<"hak","sa">>, <<"seok","sa">>, <<"bak","sa">>}

\* Raw education entries: {'institution': ..., 'degree': ...} of two strs.
EducationEntries ==
    {[institution |-> i, degree |-> d] : i \in KeywordTexts \cup SampleTexts,
                                         d \in KeywordTexts \cup SampleTexts}
    \cup {[institution |-> i, degree |-> d] : i \in ShortTexts, d \in PoolDegrees}

EntryPool == {[institution |-> i, degree |-> d] : i \in PoolInstitutions, d \in PoolDegrees}

\* Entries on which parse_education_info raises.
RaisingEntries ==
    { [institution |-> NotAStr, degree |-> <<"bak","sa">>],
      [institution |-> SeoulUniversity, degree |-> NotAStr] }

EducationLists == SeqsUpTo(EntryPool \cup RaisingEntries, MaxEdu)

Period2020To2023 == <<"2","0","2","0","-","2","0","2","3">>
Period2018To2019 == <<"2","0","1","8",".","0","1","-","2","0","1","9",".","0","6">>
PeriodNA == <<"N","/","A">>

SamplePeriods ==
    { Period2020To2023, Period2018To2019, PeriodNA, <<>>,
      <<"2","0","2","0">>,
      <<"2","0","2","0","-","0","3","-","2","0","2","3","-","1","2">>,
      <<"2","0","2","1","-","p","r","e","s","e","n","t">>,
      <<"2","0","1","9"," ","-"," ","2","0","2","1">>,
      <<"2","0","2","2","-","2","0","2","0">> }

PeriodAlphabet == {"1", "3", "-", ".", "N"}
ShortPeriods == SeqsUpTo(PeriodAlphabet, MaxTextLen)

Acme == <<"a","c","m","e">>
Work(period) == [period |-> period, company |-> Acme]

\* The two periods of the spec's tenure example.
TenureExample == <<Work(Period2020To2023), Work(Period2018To2019)>>

WorkLists ==
    {[i \in 1..Len(ps) |-> Work(ps[i])] : ps \in SeqsUpTo(SamplePeriods, MaxWork)}
    \cup {<<Work(p)>> : p \in ShortPeriods}

Samsung == <<"sam","seong">>
QuotedCompany == <<"A","\"","B">>

\* Work entries that differ in their company; an empty company is a str too.
CompanyLists ==
    {[i \in 1..Len(cs) |-> [period |-> Period2020To2023, company |-> cs[i]]] :
        cs \in SeqsUpTo({Acme, Samsung, QuotedCompany, <<>>}, MaxWork)}

(***************************************************************************)
(* SpecFn: calls of the pure functions on the inputs of the sets above.     *)
(***************************************************************************)
InitFn ==
    /\ op = "none"
    /\ arg = <<>>
    /\ ret = 0
    /\ resumes = {}
    /\ educations = <<>>
    /\ saves = {}
    /\ nextId = 0
    /\ last = [op |-> "none"]
    /\ sessions = <<>>

CallExtractEducationLevel ==
    /\ op = "none"
    /\ \E text \in InputTexts :
        /\ op' = "extract_education_level"
        /\ arg' = text
        /\ ret' = extract_education_level(text)
        /\ UNCHANGED <<storeVars, sessionVars>>

CallParseEducationInfo ==
    /\ op = "none"
    /\ \E education_data \in EducationEntries :
        /\ op' = "parse_education_info"
        /\ arg' = education_data
        /\ ret' = parse_education_info(education_data)
        /\ UNCHANGED <<storeVars, sessionVars>>

CallProcessEducationData ==
    /\ op = "none"
    /\ \E education_data_list \in EducationLists :
        /\ op' = "process_education_data"
        /\ arg' = education_data_list
        /\ ret' = process_education_data(education_data_list)
        /\ UNCHANGED <<storeVars, sessionVars>>

CallCalculateExperienceYears ==
    /\ op = "none"
    /\ \E work_experience_list \in WorkLists :
        /\ op' = "_calculate_experience_years"
        /\ arg' = work_experience_list
        /\ ret' = _calculate_experience_years(work_experience_list)
        /\ UNCHANGED <<storeVars, sessionVars>>

CallExtractPreviousCompanies ==
    /\ op = "none"
    /\ \E work_experience_list \in CompanyLists :
        /\ op' = "_extract_previous_companies"
        /\ arg' = work_experience_list
        /\ ret' = _extract_previous_companies(work_experience_list)
        /\ UNCHANGED <<storeVars, sessionVars>>

\* The caller takes the result; the next call starts from there.
Return ==
    /\ op # "none"
    /\ op' = "none"
    /\ arg' = <<>>
    /\ ret' = 0
    /\ UNCHANGED <<storeVars, sessionVars>>

NextFn ==
    \/ CallExtractEducationLevel
    \/ CallParseEducationInfo
    \/ CallProcessEducationData
    \/ CallCalculateExperienceYears
    \/ CallExtractPreviousCompanies
    \/ Return

SpecFn == InitFn /\ [][NextFn]_vars

(***************************************************************************)
(* The resume store: tables resumes and resume_educations, and the         *)
(* ResumeService calls that write them.  A commit is the point where a     *)
(* call's writes become visible to the other requests; every await on the  *)
(* database may instead raise (a storage error).                           *)
(***************************************************************************)
\* A nullable text column: no value, or one text.
NoText == <<>>
Text(t) == <<t>>

Kim == <<"k","i","m">>

StoreEducationLists ==
    { <<>>,
      <<[institution |-> SeoulUniversity, degree |-> <<"hak","sa">>]>>,
      <<[institution |-> HankukHighSchool, degree |-> <<>>],
        [institution |-> SeoulUniversity, degree |-> <<"seok","sa">>]>> }

\* ExtractedResumeInfo: the fields the stored row is derived from.
StoreExtractions ==
    {[name |-> Kim, birth_year |-> IF e = <<>> THEN 2000 ELSE 1990, education |-> e,
      work_experience |-> IF e = <<>> THEN <<>> ELSE TenureExample] :
        e \in StoreEducationLists}

\* The education_data_list built from extracted_data.education.
EducationDataList(extracted_data) ==
    [i \in 1..Len(extracted_data.education) |->
        [institution |-> extracted_data.education[i].institution,
         degree |-> extracted_data.education[i].degree]]

\* The "education" list of the dict that is dumped into column parsed_data:
\* entry i of the extraction with the level_number of parsed entry i, and 0
\* where the parsed list is shorter (i counts from 0 in the code, from 1 here).
ParsedDataEducation(extracted_data, parsed_educations) ==
    [i \in 1..Len(extracted_data.education) |->
        [institution |-> extracted_data.education[i].institution,
         degree |-> extracted_data.education[i].degree,
         education_level |->
            IF i <= Len(parsed_educations) THEN parsed_educations[i].level_number
            ELSE 0]]

\* A save that copies the first parsed education into the summary columns.
NewResumeFirstEducation(resume_id, extracted_data) ==
    LET parsed_educations ==
            process_education_data(EducationDataList(extracted_data)).parsed_educations
    IN  [id |-> resume_id,
         status |-> "completed",
         name |-> extracted_data.name,
         birth_year |-> extracted_data.birth_year,
         total_experience_years |->
            _calculate_experience_years(extracted_data.work_experience),
         education_level |->
            IF parsed_educations # <<>> THEN parsed_educations[1].education_level ELSE NULL,
         university |->
            IF parsed_educations # <<>> THEN Text(parsed_educations[1].institution_name)
            ELSE NoText,
         parsed_data |->
            [education |-> ParsedDataEducation(extracted_data,
                process_education_data(EducationDataList(extracted_data)).parsed_educations)],
         created_at |-> resume_id,
         deleted_at |-> NULL]

\* The Resume entity save_extracted_resume builds.  created_at is the server's
\* now() at the insert; the rows are inserted in the order the ids are drawn,
\* so the insert's number stands for the time.
NewResume(resume_id, extracted_data) ==
    LET final_education ==
            process_education_data(EducationDataList(extracted_data)).final_education
    IN  [id |-> resume_id,
         status |-> "completed",
         name |-> extracted_data.name,
         birth_year |-> extracted_data.birth_year,
         total_experience_years |->
            _calculate_experience_years(extracted_data.work_experience),
         education_level |->
            IF final_education # None THEN final_education.education_level ELSE NULL,
         university |->
            IF final_education # None THEN Text(final_education.institution_name)
            ELSE NoText,
         parsed_data |->
            [education |-> ParsedDataEducation(extracted_data,
                process_education_data(EducationDataList(extracted_data)).parsed_educations)],
         created_at |-> resume_id,
         deleted_at |-> NULL]

\* Detail rows that all carry the level of the first parsed entry.
NewEducationsOfFirstLevel(resume_id, parsed_educations) ==
    [i \in 1..Len(parsed_educations) |->
        [resume_id |-> resume_id,
         institution_name |-> parsed_educations[i].institution_name,
         education_level |-> parsed_educations[1].education_level]]

\* The ResumeEducation rows _save_education_details adds, in list order.
NewEducations(resume_id, parsed_educations) ==
    [i \in 1..Len(parsed_educations) |->
        [resume_id |-> resume_id,
         institution_name |-> parsed_educations[i].institution_name,
         education_level |-> parsed_educations[i].education_level]]

\* The tier of an EducationLevel value: the order of the enum's members, which
\* is the order the database sorts the column by.
TierOf(education_level) ==
    CHOOSE n \in DOMAIN EDUCATION_LEVEL_MAPPING :
        EDUCATION_LEVEL_MAPPING[n] = education_level

\* select(Resume).where(Resume.id == resume_id), scalar_one_or_none(), on the
\* rows of table resumes.
ResumeWithId(rows, resume_id) ==
    IF \E r \in rows : r.id = resume_id
    THEN CHOOSE r \in rows : r.id = resume_id
    ELSE None

get_resume_by_id(resume_id) == ResumeWithId(resumes, resume_id)

\* The rows of resume_educations of one resume.
EducationsOf(resume_id) ==
    {i \in 1..Len(educations) : educations[i].resume_id = resume_id}

\* select(ResumeEducation).where(resume_id).order_by(education_level.desc())
\* .limit(1): a row of the greatest tier, None without rows.
get_final_education(resume_id) ==
    IF EducationsOf(resume_id) = {} THEN None
    ELSE educations[CHOOSE i \in EducationsOf(resume_id) :
            \A j \in EducationsOf(resume_id) :
                TierOf(educations[j].education_level)
                    <= TierOf(educations[i].education_level)]

\* An Optional argument: None, or one value.
NoValue == <<>>
Value(v) == <<v>>

\* .order_by(Resume.created_at.desc()): the rows, latest first.
RECURSIVE OrderByCreatedAtDesc(_)
OrderByCreatedAtDesc(rows) ==
    IF rows = {} THEN <<>>
    ELSE LET latest == CHOOSE r \in rows : \A q \in rows : q.created_at <= r.created_at
         IN  <<latest>> \o OrderByCreatedAtDesc(rows \ {latest})

\* .limit(limit).offset(offset) of an ordered result.
LimitOffset(ordered, limit, offset) ==
    SubSeq(ordered, offset + 1,
           IF offset + limit < Len(ordered) THEN offset + limit ELSE Len(ordered))

\* select(Resume).where(Resume.name.ilike(f"%{name}%")): the rows whose name
\* contains name, whatever the case of the letters.
ResumesNamed(rows, name) ==
    OrderByCreatedAtDesc({r \in rows : Contains(lower(r.name), lower(name))})

get_resumes_by_name(name) == ResumesNamed(resumes, name)

\* A listing that leaves out the rows whose deleted_at is set.
ResumesPageNotDeleted(rows, limit, offset) ==
    LimitOffset(OrderByCreatedAtDesc({r \in rows : r.deleted_at = NULL}), limit, offset)

\* select(Resume).order_by(created_at.desc()).limit(limit).offset(offset).
ResumesPage(rows, limit, offset) ==
    LimitOffset(OrderByCreatedAtDesc(rows), limit, offset)

get_all_resumes(limit, offset) == ResumesPage(resumes, limit, offset)

\* A filter that keeps the rows born in or before the computed year.
AgeFilterOlder(rows, max_age, current_year) ==
    IF max_age # NoValue
    THEN {r \in rows : r.birth_year <= current_year - max_age[1]}
    ELSE rows

\* min_birth_year = datetime.now().year - max_age;
\* query.where(Resume.birth_year >= min_birth_year).
AgeFilter(rows, max_age, current_year) ==
    IF max_age # NoValue
    THEN LET min_birth_year == current_year - max_age[1]
         IN  {r \in rows : r.birth_year >= min_birth_year}
    ELSE rows

\* The level_mapping of get_resumes_with_filters.
level_mapping ==
    [level_num \in 1..6 |->
        CASE level_num = 1 -> "elementary"
          [] level_num = 2 -> "middle"
          [] level_num = 3 -> "high_school"
          [] level_num = 4 -> "bachelor"
          [] level_num = 5 -> "master"
          [] level_num = 6 -> "doctorate"]

\* target_levels: the enums of the level numbers >= max_education_level.
target_levels(max_education_level) ==
    {level_mapping[level_num] :
        level_num \in {n \in DOMAIN level_mapping : n >= max_education_level}}

\* "if target_levels: query.where(Resume.education_level.in_(target_levels))":
\* with no target level the query gets no education condition at all.  A null
\* education_level is in no list.
EducationFilter(rows, max_education_level) ==
    IF max_education_level # NoValue /\ target_levels(max_education_level[1]) # {}
    THEN {r \in rows : r.education_level \in target_levels(max_education_level[1])}
    ELSE rows

\* The query of get_resumes_with_filters on the rows of table resumes.
ResumesFiltered(rows, max_age, max_education_level, limit, offset, current_year) ==
    LimitOffset(
        OrderByCreatedAtDesc(
            EducationFilter(AgeFilter(rows, max_age, current_year),
                            max_education_level)),
        limit, offset)

get_resumes_with_filters(max_age, max_education_level, limit, offset, current_year) ==
    ResumesFiltered(resumes, max_age, max_education_level, limit, offset, current_year)

Init ==
    /\ op = "none"
    /\ arg = <<>>
    /\ ret = 0
    /\ resumes = {}
    /\ educations = <<>>
    /\ saves = {}
    /\ nextId = 0
    /\ last = [op |-> "none"]
    /\ sessions = <<>>

\* A call of save_extracted_resume: its argument, how far it is, and the number
\* of detail rows it is to store.
SaveCall(resume_id, outcome, extracted_data, details) ==
    [op |-> "save_extracted_resume", resume_id |-> resume_id, outcome |-> outcome,
     extracted_data |-> extracted_data, details |-> details]

\* save_extracted_resume up to its first commit: the id is drawn, the row is
\* built and added, and db.commit() makes the resume row visible.
SaveCommitResume ==
    /\ nextId < MaxResumes
    /\ Cardinality(saves) < MaxSaves
    /\ \E extracted_data \in StoreExtractions :
        LET resume_id == nextId + 1
            parsed_educations ==
                process_education_data(EducationDataList(extracted_data)).parsed_educations
        IN  /\ nextId' = resume_id
            /\ resumes' = resumes \cup {NewResume(resume_id, extracted_data)}
            /\ saves' = saves \cup {[resume_id |-> resume_id, pc |-> "refresh",
                                     extracted_data |-> extracted_data,
                                     parsed_educations |-> parsed_educations]}
            /\ last' = SaveCall(resume_id, "pending", extracted_data,
                                Len(parsed_educations))
            /\ UNCHANGED <<educations, fnVars, sessionVars>>

\* The first commit raises: rollback, the exception is re-raised, nothing stored.
SaveCommitResumeFails ==
    /\ nextId < MaxResumes
    /\ Cardinality(saves) < MaxSaves
    /\ \E extracted_data \in StoreExtractions :
        /\ nextId' = nextId + 1
        /\ last' = SaveCall(nextId + 1, "raised", extracted_data,
                Len(process_education_data(EducationDataList(extracted_data)).parsed_educations))
        /\ UNCHANGED <<resumes, educations, saves, fnVars, sessionVars>>

\* db.refresh(resume): re-reads the committed row.
SaveRefresh ==
    \E s \in saves :
        /\ s.pc = "refresh"
        /\ get_resume_by_id(s.resume_id) # None
        /\ saves' = (saves \ {s}) \cup {[s EXCEPT !.pc = "details"]}
        /\ last' = SaveCall(s.resume_id, "pending", s.extracted_data,
                            Len(s.parsed_educations))
        /\ UNCHANGED <<resumes, educations, nextId, fnVars, sessionVars>>

\* db.refresh raises (the row is gone, or a storage error): rollback of a
\* session with nothing pending, the exception is re-raised.
SaveRefreshFails ==
    \E s \in saves :
        /\ s.pc = "refresh"
        /\ saves' = saves \ {s}
        /\ last' = SaveCall(s.resume_id, "raised", s.extracted_data,
                            Len(s.parsed_educations))
        /\ UNCHANGED <<resumes, educations, nextId, fnVars, sessionVars>>

\* _save_education_details: every row is added and committed; the call returns.
SaveEducationDetails ==
    \E s \in saves :
        /\ s.pc = "details"
        /\ educations' = educations \o NewEducations(s.resume_id, s.parsed_educations)
        /\ saves' = saves \ {s}
        /\ last' = SaveCall(s.resume_id, "returned", s.extracted_data,
                            Len(s.parsed_educations))
        /\ UNCHANGED <<resumes, nextId, fnVars, sessionVars>>

\* The second commit raises: _save_education_details rolls back and re-raises,
\* save_extracted_resume rolls back and re-raises.  The resume row was
\* committed before and stays.
SaveEducationDetailsFails ==
    \E s \in saves :
        /\ s.pc = "details"
        /\ saves' = saves \ {s}
        /\ last' = SaveCall(s.resume_id, "raised", s.extracted_data,
                            Len(s.parsed_educations))
        /\ UNCHANGED <<resumes, educations, nextId, fnVars, sessionVars>>

\* A DELETE without its WHERE clause.
DeleteEveryRow(rows, resume_id) == {}

\* delete(Resume).where(Resume.id == resume_id) on the rows of table resumes.
DeleteResumeRow(rows, resume_id) == {r \in rows : r.id # resume_id}

DeleteCall(resume_id, hard, result) ==
    [op |-> "delete_resume_by_id", resume_id |-> resume_id, hard |-> hard,
     existed |-> get_resume_by_id(resume_id) # None, result |-> result]

\* A hard delete that answers with whether a row matched the id.
HardDeleteResumeChecksRow ==
    \E resume_id \in 0..nextId :
        /\ resumes' = DeleteResumeRow(resumes, resume_id)
        /\ last' = DeleteCall(resume_id, TRUE, get_resume_by_id(resume_id) # None)
        /\ UNCHANGED <<educations, saves, nextId, fnVars, sessionVars>>

\* delete_resume_by_id(.., hard=True): delete(Resume).where(id) and commit.
\* Only table resumes is written: resume_educations.resume_id is a plain
\* indexed column, no foreign key and no cascade.
HardDeleteResume ==
    \E resume_id \in 0..nextId :
        /\ resumes' = DeleteResumeRow(resumes, resume_id)
        /\ last' = DeleteCall(resume_id, TRUE, TRUE)
        /\ UNCHANGED <<educations, saves, nextId, fnVars, sessionVars>>

\* The execute or the commit raises: rollback, False.
HardDeleteResumeFails ==
    \E resume_id \in 0..nextId :
        /\ last' = DeleteCall(resume_id, TRUE, FALSE)
        /\ UNCHANGED <<resumes, educations, saves, nextId, fnVars, sessionVars>>

\* A soft delete that removes the row, as the hard delete does.
SoftDeleteRemovesRow ==
    \E resume_id \in 0..nextId :
        /\ resumes' = {r \in resumes : r.id # resume_id}
        /\ last' = DeleteCall(resume_id, FALSE, TRUE)
        /\ UNCHANGED <<educations, saves, nextId, fnVars, sessionVars>>

\* delete_resume_by_id(.., hard=False): building the UPDATE evaluates
\* func.now(), and the module imports no name func: NameError inside the try,
\* caught by "except Exception": rollback, False.  Nothing is written.
SoftDeleteResume ==
    \E resume_id \in 0..nextId :
        /\ last' = DeleteCall(resume_id, FALSE, FALSE)
        /\ UNCHANGED <<resumes, educations, saves, nextId, fnVars, sessionVars>>

\* A call of delete_all_resumes: existed is the number of rows it found, error
\* tells whether the database raised.
DeleteAllCall(hard, count, error) ==
    [op |-> "delete_all_resumes", hard |-> hard, existed |-> Cardinality(resumes),
     count |-> count, error |-> error]

\* delete_all_resumes(hard=True): delete(Resume), rowcount, commit.
HardDeleteAll ==
    /\ resumes' = {}
    /\ last' = DeleteAllCall(TRUE, Cardinality(resumes), FALSE)
    /\ UNCHANGED <<educations, saves, nextId, fnVars, sessionVars>>

\* The execute or the commit raises: rollback, 0.
HardDeleteAllFails ==
    /\ last' = DeleteAllCall(TRUE, 0, TRUE)
    /\ UNCHANGED <<resumes, educations, saves, nextId, fnVars, sessionVars>>

\* delete_all_resumes(hard=False): func.now() again, NameError, rollback, 0.
SoftDeleteAll ==
    /\ last' = DeleteAllCall(FALSE, 0, FALSE)
    /\ UNCHANGED <<resumes, educations, saves, nextId, fnVars, sessionVars>>

\* The arguments the read calls are made with.
SearchNames == {Kim, <<"I">>, <<"l","e","e">>}
Limits == {1, 100}
Offsets == {0, 1}
MaxAges == {NoValue, Value(30)}
Thresholds == {NoValue, Value(4), Value(7)}
\* datetime.now().year at the time of the query.
CurrentYears == {2026, 2031}

\* The read calls; get_resumes_with_filters with its default limit 100 and
\* offset 0.  error tells whether db.execute raised: the caller does not
\* see it, it sees result only.
GetResumeById ==
    \E resume_id \in 0..nextId :
        /\ last' = [op |-> "get_resume_by_id", resume_id |-> resume_id,
                    result |-> get_resume_by_id(resume_id), error |-> FALSE]
        /\ UNCHANGED <<resumes, educations, saves, nextId, fnVars, sessionVars>>

\* db.execute raises: "except Exception: return None".
GetResumeByIdFails ==
    \E resume_id \in 0..nextId :
        /\ last' = [op |-> "get_resume_by_id", resume_id |-> resume_id,
                    result |-> None, error |-> TRUE]
        /\ UNCHANGED <<resumes, educations, saves, nextId, fnVars, sessionVars>>

GetResumesByName ==
    \E name \in SearchNames :
        /\ last' = [op |-> "get_resumes_by_name", name |-> name,
                    result |-> get_resumes_by_name(name), error |-> FALSE]
        /\ UNCHANGED <<resumes, educations, saves, nextId, fnVars, sessionVars>>

\* db.execute raises: "except Exception: return []".
GetResumesByNameFails ==
    \E name \in SearchNames :
        /\ last' = [op |-> "get_resumes_by_name", name |-> name,
                    result |-> <<>>, error |-> TRUE]
        /\ UNCHANGED <<resumes, educations, saves, nextId, fnVars, sessionVars>>

GetAllResumes ==
    \E limit \in Limits, offset \in Offsets :
        /\ last' = [op |-> "get_all_resumes", limit |-> limit, offset |-> offset,
                    result |-> get_all_resumes(limit, offset), error |-> FALSE]
        /\ UNCHANGED <<resumes, educations, saves, nextId, fnVars, sessionVars>>

GetAllResumesFails ==
    \E limit \in Limits, offset \in Offsets :
        /\ last' = [op |-> "get_all_resumes", limit |-> limit, offset |-> offset,
                    result |-> <<>>, error |-> TRUE]
        /\ UNCHANGED <<resumes, educations, saves, nextId, fnVars, sessionVars>>

FiltersCall(max_age, max_education_level, current_year, result, error) ==
    [op |-> "get_resumes_with_filters", max_age |-> max_age,
     max_education_level |-> max_education_level, limit |-> 100, offset |-> 0,
     current_year |-> IF max_age # NoValue THEN Value(current_year) ELSE NoValue,
     result |-> result, error |-> error]

GetResumesWithFilters ==
    \E max_age \in MaxAges, max_education_level \in Thresholds,
       current_year \in CurrentYears :
        /\ last' = FiltersCall(max_age, max_education_level, current_year,
                        get_resumes_with_filters(max_age, max_education_level,
                                                 100, 0, current_year),
                        FALSE)
        /\ UNCHANGED <<resumes, educations, saves, nextId, fnVars, sessionVars>>

GetResumesWithFiltersFails ==
    \E max_age \in MaxAges, max_education_level \in Thresholds,
       current_year \in CurrentYears :
        /\ last' = FiltersCall(max_age, max_education_level, current_year, <<>>, TRUE)
        /\ UNCHANGED <<resumes, educations, saves, nextId, fnVars, sessionVars>>

Next ==
    \/ SaveCommitResume
    \/ SaveCommitResumeFails
    \/ SaveRefresh
    \/ SaveRefreshFails
    \/ SaveEducationDetails
    \/ SaveEducationDetailsFails
    \/ HardDeleteResume
    \/ HardDeleteResumeFails
    \/ SoftDeleteResume
    \/ HardDeleteAll
    \/ HardDeleteAllFails
    \/ SoftDeleteAll

Spec == Init /\ [][Next]_vars

(***************************************************************************)
(* SpecRead: the read calls, on the stores the write calls leave when the   *)
(* saves are issued one after the other.  A read looks at table resumes     *)
(* only, and every content of that table is reached this way.              *)
(***************************************************************************)
NextRead ==
    \/ (saves = {} /\ SaveCommitResume)
    \/ (saves = {} /\ SaveCommitResumeFails)
    \/ SaveRefresh
    \/ SaveRefreshFails
    \/ SaveEducationDetails
    \/ SaveEducationDetailsFails
    \/ HardDeleteResume
    \/ HardDeleteResumeFails
    \/ SoftDeleteResume
    \/ HardDeleteAll
    \/ HardDeleteAllFails
    \/ SoftDeleteAll
    \/ GetResumeById
    \/ GetResumeByIdFails
    \/ GetResumesByName
    \/ GetResumesByNameFails
    \/ GetAllResumes
    \/ GetAllResumesFails
    \/ GetResumesWithFilters
    \/ GetResumesWithFiltersFails

SpecRead == Init /\ [][NextRead]_vars

(***************************************************************************)
(* SpecPair: two concurrent requests on different resumes.  Resume 1 is     *)
(* stored; one request saves a new resume, which gets id 2, the other       *)
(* deletes resume 1.  arg is what the two requests are called with and      *)
(* where the database raises; ret is what they have returned so far and     *)
(* the order of their steps.                                                *)
(***************************************************************************)
SaveFaults == {"none", "commit", "refresh", "details"}

\* stored: the extraction resume 1 was saved from; extracted_data: the one to
\* save; save_fault: the await of the save that raises; hard: the delete's
\* flag; delete_fault: whether the delete's execute or commit raises.
PairPlans ==
    [stored : StoreExtractions, extracted_data : StoreExtractions,
     save_fault : SaveFaults, hard : BOOLEAN, delete_fault : BOOLEAN]

ParsedOf(extracted_data) ==
    process_education_data(EducationDataList(extracted_data)).parsed_educations

InitPair ==
    /\ op = "pair"
    /\ arg \in PairPlans
    /\ ret = [save |-> "pending", delete |-> "pending", steps |-> <<>>]
    /\ resumes = {NewResume(1, arg.stored)}
    /\ educations = NewEducations(1, ParsedOf(arg.stored))
    /\ saves = {}
    /\ nextId = 1
    /\ last = [op |-> "none"]
    /\ sessions = <<>>

\* save_extracted_resume up to its first commit.
PairSaveCommit ==
    /\ ret.save = "pending"
    /\ nextId = 1
    /\ nextId' = 2
    /\ IF arg.save_fault = "commit"
       THEN /\ ret' = [ret EXCEPT !.save = "raised", !.steps = Append(@, "commit")]
            /\ UNCHANGED <<resumes, saves>>
       ELSE /\ resumes' = resumes \cup {NewResume(2, arg.extracted_data)}
            /\ saves' = {[resume_id |-> 2, pc |-> "refresh",
                          extracted_data |-> arg.extracted_data,
                          parsed_educations |-> ParsedOf(arg.extracted_data)]}
            /\ ret' = [ret EXCEPT !.steps = Append(@, "commit")]
    /\ UNCHANGED <<op, arg, educations, last, sessionVars>>

\* db.refresh(resume): raises when the row is gone or the database fails.
PairSaveRefresh ==
    \E s \in saves :
        /\ s.pc = "refresh"
        /\ IF arg.save_fault = "refresh" \/ get_resume_by_id(s.resume_id) = None
           THEN /\ saves' = {}
                /\ ret' = [ret EXCEPT !.save = "raised", !.steps = Append(@, "refresh")]
           ELSE /\ saves' = {[s EXCEPT !.pc = "details"]}
                /\ ret' = [ret EXCEPT !.steps = Append(@, "refresh")]
        /\ UNCHANGED <<op, arg, resumes, educations, nextId, last, sessionVars>>

\* _save_education_details and the return of save_extracted_resume.
PairSaveDetails ==
    \E s \in saves :
        /\ s.pc = "details"
        /\ saves' = {}
        /\ IF arg.save_fault = "details"
           THEN /\ ret' = [ret EXCEPT !.save = "raised", !.steps = Append(@, "details")]
                /\ UNCHANGED educations
           ELSE /\ educations' =
                      educations \o NewEducations(s.resume_id, s.parsed_educations)
                /\ ret' = [ret EXCEPT !.save = "returned",
                                      !.steps = Append(@, "details")]
        /\ UNCHANGED <<op, arg, resumes, nextId, last, sessionVars>>

\* delete_resume_by_id(1, hard): the soft branch raises NameError and a
\* storage error raises too: rollback, False.
PairDelete ==
    /\ ret.delete = "pending"
    /\ IF arg.hard /\ ~arg.delete_fault
       THEN /\ resumes' = DeleteResumeRow(resumes, 1)
            /\ ret' = [ret EXCEPT !.delete = "True", !.steps = Append(@, "delete")]
       ELSE /\ ret' = [ret EXCEPT !.delete = "False", !.steps = Append(@, "delete")]
            /\ UNCHANGED resumes
    /\ UNCHANGED <<op, arg, educations, saves, nextId, last, sessionVars>>

NextPair ==
    \/ PairSaveCommit
    \/ PairSaveRefresh
    \/ PairSaveDetails
    \/ PairDelete

SpecPair == InitPair /\ [][NextPair]_vars

(***************************************************************************)
(* SpecSession: the database session of a request.  A handler declares     *)
(* db = Depends(get_db); get_db is an async generator that iterates the     *)
(* async generator db_manager.get_session() and yields its session on.     *)
(* FastAPI resumes get_db when the handler has returned and throws the      *)
(* handler's exception into get_db when it has raised.  events is the list  *)
(* of the session's methods called so far.                                 *)
(***************************************************************************)
Requests == 1..MaxRequests

Request(pc, raised, events) == [pc |-> pc, raised |-> raised, events |-> events]

InitSession ==
    /\ op = "none"
    /\ arg = <<>>
    /\ ret = 0
    /\ resumes = {}
    /\ educations = <<>>
    /\ saves = {}
    /\ nextId = 0
    /\ last = [op |-> "none"]
    /\ sessions = [r \in Requests |-> Request("waiting", "no", <<>>)]

\* Depends(get_db): get_db starts, its async for starts get_session, which
\* enters "async with self.async_session_maker() as session" and yields the
\* session; get_db yields it on to the handler.
GetDb(r) ==
    /\ sessions[r].pc = "waiting"
    /\ sessions' = [sessions EXCEPT ![r] = Request("handler", "no", <<>>)]
    /\ UNCHANGED <<fnVars, storeVars>>

\* The handler returns its response.
HandlerReturns(r) ==
    /\ sessions[r].pc = "handler"
    /\ sessions' = [sessions EXCEPT ![r].pc = "returned"]
    /\ UNCHANGED <<fnVars, storeVars>>

\* The handler raises without a write having failed: the HTTPException of a
\* validation (400, 404, 422), or an exception its try block turns into
\* HTTPException(500); Exception stands for one that escapes as it is.
HandlerRaises(r) ==
    /\ sessions[r].pc = "handler"
    /\ \E exception \in {"HTTPException", "Exception"} :
        sessions' = [sessions EXCEPT ![r].pc = "raised", ![r].raised = exception]
    /\ UNCHANGED <<fnVars, storeVars>>

\* A write of ResumeService fails: the service calls db.rollback() itself and
\* re-raises (save) or returns False (delete); the handler raises
\* HTTPException(500).
HandlerRaisesAfterServiceRollback(r) ==
    /\ sessions[r].pc = "handler"
    /\ sessions' = [sessions EXCEPT ![r] =
                        Request("raised", "HTTPException", <<"rollback">>)]
    /\ UNCHANGED <<fnVars, storeVars>>

\* After a normal return FastAPI resumes get_db; its async for resumes
\* get_session after the yield: no exception, "finally: await session.close()",
\* then the async with closes the session again; both generators end.
GetDbResumed(r) ==
    /\ sessions[r].pc = "returned"
    /\ sessions' = [sessions EXCEPT ![r].pc = "done",
                                    ![r].events = @ \o <<"close", "close">>]
    /\ UNCHANGED <<fnVars, storeVars>>

\* After a raise FastAPI throws the exception into get_db at its yield.  get_db
\* has no handler for it and an async for passes nothing on to the generator it
\* iterates: get_db ends with the exception, get_session stays suspended at
\* its yield with the session open, and nothing refers to it any more.
GetDbThrown(r) ==
    /\ sessions[r].pc = "raised"
    /\ sessions' = [sessions EXCEPT ![r].pc = "orphaned"]
    /\ UNCHANGED <<fnVars, storeVars>>

\* The event loop's finalizer of async generators calls aclose() on the
\* unreferenced get_session: GeneratorExit is raised at its yield, which
\* "except Exception" does not catch (no rollback); "finally" closes the
\* session and the async with closes it again.
GetSessionFinalized(r) ==
    /\ sessions[r].pc = "orphaned"
    /\ sessions' = [sessions EXCEPT ![r].pc = "done",
                                    ![r].events = @ \o <<"close", "close">>]
    /\ UNCHANGED <<fnVars, storeVars>>

NextSession ==
    \/ \E r \in Requests : GetDb(r)
    \/ \E r \in Requests : HandlerReturns(r)
    \/ \E r \in Requests : HandlerRaises(r)
    \/ \E r \in Requests : HandlerRaisesAfterServiceRollback(r)
    \/ \E r \in Requests : GetDbResumed(r)
    \/ \E r \in Requests : GetDbThrown(r)
    \/ \E r \in Requests : GetSessionFinalized(r)

\* The event loop runs every coroutine that is ready: a handler ends, FastAPI
\* runs the exit of the dependency, the finalizer's aclose() task is run.
FairSession ==
    \A r \in Requests :
        /\ WF_vars(HandlerReturns(r) \/ HandlerRaises(r)
                        \/ HandlerRaisesAfterServiceRollback(r))
        /\ WF_vars(GetDbResumed(r))
        /\ WF_vars(GetDbThrown(r))
        /\ WF_vars(GetSessionFinalized(r))

SpecSession == InitSession /\ [][NextSession]_vars /\ FairSession

(***************************************************************************)
(* SpecUpload: the requests POST /extract-and-save-resume, one after the    *)
(* other.  The handler checks the file name, awaits the extraction, and on  *)
(* success awaits save_extracted_resume; each await of the database may     *)
(* raise.  ret.before is the content of the two tables when the request     *)
(* came in.                                                                 *)
(***************************************************************************)
EndsWith(text, suffix) ==
    /\ Len(text) >= Len(suffix)
    /\ SubSeq(text, Len(text) - Len(suffix) + 1, Len(text)) = suffix

DotPdf == <<".","p","d","f">>

\* file.filename: none, two PDF names and a name of another type.
Filenames ==
    { <<>>,
      <<"c","v",".","p","d","f">>,
      <<"C","V",".","P","D","F">>,
      <<"c","v",".","t","x","t">> }

\* What extract_resume_info makes of the API's answer to a PDF: the extracted
\* data, or success=False with the message of the except branch taken.
ExtractionResults ==
    {[success |-> TRUE, extracted_data |-> e, error_message |-> NULL] :
        e \in StoreExtractions}
    \cup {[success |-> FALSE, extracted_data |-> None, error_message |-> m] :
            m \in {"JSONDecodeError", "Exception"}}

Uploads == [filename : Filenames, extraction_result : ExtractionResults]

UploadStart ==
    [pc |-> "start", extraction |-> "not run", status_code |-> 0,
     before |-> [resumes |-> resumes, educations |-> educations]]

InitUpload ==
    /\ op = "extract_and_save_resume"
    /\ arg \in Uploads
    /\ ret = [pc |-> "start", extraction |-> "not run", status_code |-> 0,
              before |-> [resumes |-> {}, educations |-> <<>>]]
    /\ resumes = {}
    /\ educations = <<>>
    /\ saves = {}
    /\ nextId = 0
    /\ last = [op |-> "none"]
    /\ sessions = <<>>

\* The handler ends: the response with this status code is sent.
Respond(status_code) == [ret EXCEPT !.pc = "responded", !.status_code = status_code]

\* "if not file.filename: raise HTTPException(400)".
CheckFilename ==
    /\ ret.pc = "start"
    /\ ret' = IF arg.filename = <<>> THEN Respond(400) ELSE [ret EXCEPT !.pc = "extract"]
    /\ UNCHANGED <<op, arg, storeVars, sessionVars>>

\* A handler that answers 200 to an extraction that did not succeed.
ExtractResumeInfoFailureAnswersOk ==
    /\ ret.pc = "extract"
    /\ ret' = IF ~EndsWith(lower(arg.filename), DotPdf)
              THEN [Respond(400) EXCEPT !.extraction = "raised"]
              ELSE IF ~arg.extraction_result.success
              THEN [Respond(200) EXCEPT !.extraction = "failure"]
              ELSE [ret EXCEPT !.pc = "save", !.extraction = "success"]
    /\ UNCHANGED <<op, arg, storeVars, sessionVars>>

\* "extraction_result = await service.extract_resume_info(file)": the service
\* raises HTTPException(400) for a name that does not end in .pdf, which the
\* handler re-raises; "if not extraction_result.success: raise
\* HTTPException(422)"; otherwise the handler goes on to the save.
ExtractResumeInfo ==
    /\ ret.pc = "extract"
    /\ ret' = IF ~EndsWith(lower(arg.filename), DotPdf)
              THEN [Respond(400) EXCEPT !.extraction = "raised"]
              ELSE IF ~arg.extraction_result.success
              THEN [Respond(422) EXCEPT !.extraction = "failure"]
              ELSE [ret EXCEPT !.pc = "save", !.extraction = "success"]
    /\ UNCHANGED <<op, arg, storeVars, sessionVars>>

\* save_extracted_resume up to its first commit; an exception of the save
\* reaches the handler's "except Exception": HTTPException(500).
UploadSaveCommit ==
    /\ ret.pc = "save"
    /\ nextId' = nextId + 1
    /\ \E raised \in BOOLEAN :
        IF raised
        THEN /\ ret' = Respond(500)
             /\ UNCHANGED resumes
        ELSE /\ resumes' = resumes
                    \cup {NewResume(nextId + 1, arg.extraction_result.extracted_data)}
             /\ ret' = [ret EXCEPT !.pc = "refresh"]
    /\ UNCHANGED <<op, arg, educations, saves, last, sessionVars>>

\* db.refresh(resume).
UploadSaveRefresh ==
    /\ ret.pc = "refresh"
    /\ \E raised \in BOOLEAN :
        ret' = IF raised THEN Respond(500) ELSE [ret EXCEPT !.pc = "details"]
    /\ UNCHANGED <<op, arg, storeVars, sessionVars>>

\* _save_education_details, the return of the save and the handler's answer.
UploadSaveDetails ==
    /\ ret.pc = "details"
    /\ \E raised \in BOOLEAN :
        IF raised
        THEN /\ ret' = Respond(500)
             /\ UNCHANGED educations
        ELSE /\ educations' = educations
                    \o NewEducations(nextId,
                                     ParsedOf(arg.extraction_result.extracted_data))
             /\ ret' = Respond(200)
    /\ UNCHANGED <<op, arg, resumes, saves, nextId, last, sessionVars>>

\* The next request comes in.
NextUpload ==
    /\ ret.pc = "responded"
    /\ nextId < MaxResumes
    /\ arg' \in Uploads
    /\ ret' = UploadStart
    /\ UNCHANGED <<op, storeVars, sessionVars>>

NextUploadStep ==
    \/ CheckFilename
    \/ ExtractResumeInfo
    \/ UploadSaveCommit
    \/ UploadSaveRefresh
    \/ UploadSaveDetails
    \/ NextUpload

SpecUpload == InitUpload /\ [][NextUploadStep]_vars

(***************************************************************************)
(* Claims about the pure functions, checked under SpecFn.                  *)
(***************************************************************************)
NoKeywordIn(text) ==
    text = <<>> \/ \A k \in KeywordTexts : ~Contains(strip(lower(text)), k)

\* C1: extract_education_level of a keyword of EDUCATION_KEYWORDS is the tier
\* the table gives that keyword, and it is 0 for the empty text and for a text
\* that contains no keyword.
C1_KeywordGivesItsTableTier ==
    op = "extract_education_level" =>
        /\ \A i \in 1..Len(EDUCATION_KEYWORDS) :
              arg = EDUCATION_KEYWORDS[i].keyword => ret = EDUCATION_KEYWORDS[i].level
        /\ NoKeywordIn(arg) => ret = 0

\* C2: parse_education_info returns a level_number in 1..6 and the enum of
\* that level, never null; an entry neither of whose texts classifies gets
\* level 4.
C2_ParsedLevelIsNeverZero ==
    op = "parse_education_info" =>
        /\ ret.level_number \in 1..6
        /\ ret.education_level # NULL
        /\ ret.education_level = EDUCATION_LEVEL_MAPPING[ret.level_number]
        /\ (NoKeywordIn(arg.institution) /\ NoKeywordIn(arg.degree))
              => ret.level_number = 4

C2_Witness ==
    /\ op = "parse_education_info"
    /\ arg.institution # <<>>
    /\ NoKeywordIn(arg.institution)
    /\ NoKeywordIn(arg.degree)
    /\ ret.level_number = 4
    /\ ret.education_level = "bachelor"

\* C3: for a non-empty education list, of entries with str fields, the final
\* education of process_education_data has the greatest level_number of the
\* parsed list.
C3_FinalHasMaxLevel ==
    (/\ op = "process_education_data"
     /\ arg # <<>>
     /\ \A i \in 1..Len(arg) : ~ParseRaises(arg[i])) =>
        /\ ret.final_education # None
        /\ \A i \in 1..Len(ret.parsed_educations) :
              ret.parsed_educations[i].level_number <= ret.final_education.level_number
        /\ \E i \in 1..Len(ret.parsed_educations) :
              ret.parsed_educations[i].level_number = ret.final_education.level_number

C3_Witness ==
    /\ op = "process_education_data"
    /\ Len(arg) >= 2
    /\ ret.final_education # None
    /\ ret.final_education.level_number > ret.parsed_educations[1].level_number
    /\ ret.final_education.level_number
          > ret.parsed_educations[Len(ret.parsed_educations)].level_number

\* The indices of the parsed entries of greatest level_number.
TopIndices(parsed) ==
    {i \in 1..Len(parsed) :
        \A j \in 1..Len(parsed) : parsed[j].level_number <= parsed[i].level_number}

\* C4: when several parsed entries share the greatest level_number, the final
\* education is the first of them in input order.
C4_TieKeepsFirstInInputOrder ==
    (op = "process_education_data" /\ Cardinality(TopIndices(ret.parsed_educations)) >= 2) =>
        LET first == CHOOSE i \in TopIndices(ret.parsed_educations) :
                        \A j \in TopIndices(ret.parsed_educations) : i <= j
        IN  ret.final_education = ret.parsed_educations[first]

C4_Witness ==
    /\ op = "process_education_data"
    /\ \E i, j \in TopIndices(ret.parsed_educations) :
          /\ i < j
          /\ \A k \in TopIndices(ret.parsed_educations) : i <= k
          /\ i > 1
          /\ ret.parsed_educations[i] # ret.parsed_educations[j]
          /\ ret.final_education = ret.parsed_educations[i]

\* A period that is not of the form <start>-<end>: split('-') gives one part
\* (no separator) or more than two.
MalformedPeriod(period) == period # <<>> /\ Len(split(period, "-")) # 2

RECURSIVE ClaimedMonths(_)
ClaimedMonths(work_experience_list) ==
    IF work_experience_list = <<>> THEN 0
    ELSE (IF MalformedPeriod(Head(work_experience_list).period) THEN 12
          ELSE MonthsOf(Head(work_experience_list).period))
            + ClaimedMonths(Tail(work_experience_list))

\* C5: in _calculate_experience_years a work entry whose period is malformed
\* ("N/A", no '-' separator, more than one '-') adds exactly 12 months, and the
\* other entries are still accumulated.
C5_MalformedPeriodAddsTwelveMonths ==
    (op = "_calculate_experience_years" /\ arg # <<>>) =>
        ret = RoundTenths(ClaimedMonths(arg))

\* C6 as amended: for the two periods "2020-2023" and "2018.01-2019.06"
\* _calculate_experience_years returns 4.0 (40 tenths).
C6_TenureExampleIsFour ==
    (op = "_calculate_experience_years" /\ arg = TenureExample) => ret = 40

C6_Witness ==
    /\ op = "_calculate_experience_years"
    /\ arg = TenureExample
    /\ ret = 40

\* C6 as stated: for the two periods "2020-2023" and "2018.01-2019.06"
\* _calculate_experience_years returns 6.0 (60 tenths).
C6_TenureExampleIsSix ==
    (op = "_calculate_experience_years" /\ arg = TenureExample) => ret = 60

\* C21: the level_number parse_education_info returns is the greater of
\* extract_education_level(institution) and extract_education_level(degree)
\* whenever that is not 0; each text is classified by itself.
C21_LevelIsMaxOfInstitutionAndDegree ==
    op = "parse_education_info" =>
        LET level_from_institution == extract_education_level(arg.institution)
            level_from_degree == extract_education_level(arg.degree)
            greater == IF level_from_institution >= level_from_degree
                       THEN level_from_institution ELSE level_from_degree
        IN  greater # 0 => ret.level_number = greater

\* The degree gives a tier above the one the institution gives.
C21_Witness ==
    /\ op = "parse_education_info"
    /\ extract_education_level(arg.institution) = 4
    /\ extract_education_level(arg.degree) = 6
    /\ ret.level_number = 6
    /\ ret.education_level = "doctorate"

\* The tiers of the keywords that occur in the lowered, stripped text.
TiersIn(text) ==
    {EDUCATION_KEYWORDS[i].level : i \in
        {j \in 1..Len(EDUCATION_KEYWORDS) :
            Contains(strip(lower(text)), EDUCATION_KEYWORDS[j].keyword)}}

\* C25: the keyword table is in ascending order of tier, and for a text that
\* contains keywords of more than one tier extract_education_level returns
\* the lowest of those tiers.
C25_SeveralTiersGiveTheLowest ==
    op = "extract_education_level" =>
        /\ \A i, j \in 1..Len(EDUCATION_KEYWORDS) :
              i <= j => EDUCATION_KEYWORDS[i].level <= EDUCATION_KEYWORDS[j].level
        /\ Cardinality(TiersIn(arg)) > 1 =>
              /\ ret \in TiersIn(arg)
              /\ \A tier \in TiersIn(arg) : ret <= tier

\* A text with a tier-4 and a tier-5 keyword is given 4.
C25_Witness ==
    /\ op = "extract_education_level"
    /\ {4, 5} \subseteq TiersIn(arg)
    /\ ret = 4

\* C26: every alternative of every pattern is a keyword of the table, so a
\* text a pattern matches contains a keyword and was answered by the keyword
\* stage, and a text without a keyword is given 0.
C26_PatternStageNeverAnswers ==
    op = "extract_education_level" =>
        /\ \A i \in 1..Len(patterns) : patterns[i].alternatives \subseteq KeywordTexts
        /\ (\E i \in 1..Len(patterns) : re_search(patterns[i], strip(lower(arg))))
              => TiersIn(arg) # {}
        /\ TiersIn(arg) = {} => ret = 0

\* A text of letters none of whose substrings is a keyword goes through both
\* stages and is given 0.
C26_Witness ==
    /\ op = "extract_education_level"
    /\ strip(lower(arg)) # <<>>
    /\ TiersIn(arg) = {}
    /\ PatternStage(strip(lower(arg))) = 0
    /\ ret = 0

\* The year of one side of a well-formed period: its digits before the
\* first '.', blanks around the side aside.
LeadingYear(side) == BeforeFirst(strip(side), ".")

WellFormedPeriod(period) ==
    /\ Len(split(period, "-")) = 2
    /\ \A k \in 1..2 :
          /\ LeadingYear(split(period, "-")[k]) # <<>>
          /\ \A i \in 1..Len(LeadingYear(split(period, "-")[k])) :
                LeadingYear(split(period, "-")[k])[i] \in Digits

RECURSIVE YearsBetween(_)
YearsBetween(work_experience_list) ==
    IF work_experience_list = <<>> THEN 0
    ELSE LET sides == split(Head(work_experience_list).period, "-")
         IN  DigitsValue(LeadingYear(sides[2])) - DigitsValue(LeadingYear(sides[1]))
                + YearsBetween(Tail(work_experience_list))

\* C22: a well-formed period "<start>-<end>" adds (end_year - start_year) * 12
\* months, the years being the leading year tokens, whatever the month parts;
\* the tenure of a list of such entries is the sum divided by 12 (here in
\* tenths of a year), and 0.0 for the empty list.
C22_WellFormedPeriodsAddWholeYears ==
    (/\ op = "_calculate_experience_years"
     /\ \A i \in 1..Len(arg) : WellFormedPeriod(arg[i].period)) =>
        ret = 10 * YearsBetween(arg)

\* Two entries with month parts and blanks: 1 year and 2 years.
C22_Witness ==
    /\ op = "_calculate_experience_years"
    /\ Len(arg) = 2
    /\ arg[1].period = Period2018To2019
    /\ arg[2].period = <<"2","0","1","9"," ","-"," ","2","0","2","1">>
    /\ ret = 30

NotRaising(education_data) == ~ParseRaises(education_data)

\* C17: in process_education_data an entry whose processing raises is skipped;
\* the parsed list is exactly the results of the entries that do not raise, in
\* their order, and the final education is one of them (None when there is
\* none).
C17_RaisingEntryIsSkipped ==
    op = "process_education_data" =>
        LET kept == SelectSeq(arg, NotRaising)
        IN  /\ ret.parsed_educations =
                  [i \in 1..Len(kept) |-> parse_education_info(kept[i])]
            /\ IF kept = <<>> THEN ret.final_education = None
               ELSE \E i \in 1..Len(ret.parsed_educations) :
                        ret.final_education = ret.parsed_educations[i]

C17_Witness ==
    /\ op = "process_education_data"
    /\ Len(arg) = 3
    /\ ~ParseRaises(arg[1])
    /\ ParseRaises(arg[2])
    /\ ~ParseRaises(arg[3])
    /\ Len(ret.parsed_educations) = 2
    /\ ret.final_education = ret.parsed_educations[2]
    /\ ret.final_education # ret.parsed_educations[1]

\* json.loads of a serialized list of strs: the texts between the quotes, a
\* character behind a backslash taken as it is.
RECURSIVE JsonLoads(_, _, _, _)
JsonLoads(text, items, item, quoted) ==
    IF text = <<>> THEN items
    ELSE IF quoted
    THEN IF Head(text) = "\\"
         THEN JsonLoads(Tail(Tail(text)), items, Append(item, text[2]), TRUE)
         ELSE IF Head(text) = "\""
         THEN JsonLoads(Tail(text), Append(items, item), <<>>, FALSE)
         ELSE JsonLoads(Tail(text), items, Append(item, Head(text)), TRUE)
    ELSE JsonLoads(Tail(text), items, item, Head(text) = "\"")

json_loads(text) == JsonLoads(text, <<>>, <<>>, FALSE)

\* The companies of the entries at index 1 and later, one per entry.
LaterCompanies(work_experience_list) ==
    [i \in 1..(Len(work_experience_list) - 1) |-> work_experience_list[i + 1].company]

NonEmpty(text) == text # <<>>

\* C19 as amended: _extract_previous_companies returns the serialized list of
\* the non-empty company names of the work entries at index 1 and later, in
\* order; it returns None when there is no such name, which includes every
\* list of fewer than 2 entries.
C19_PreviousCompaniesAreTheNonEmptyLaterOnes ==
    op = "_extract_previous_companies" =>
        LET names == IF Len(arg) < 2 THEN <<>>
                     ELSE SelectSeq(LaterCompanies(arg), NonEmpty)
        IN  /\ (ret = NoText) <=> (names = <<>>)
            /\ ret # NoText =>
                  /\ json_loads(ret[1]) = names
                  /\ Head(ret[1]) = "[" /\ ret[1][Len(ret[1])] = "]"

C19_Witness ==
    /\ op = "_extract_previous_companies"
    /\ Len(arg) = 3
    /\ arg[1].company = Acme
    /\ arg[2].company = <<>>
    /\ arg[3].company = QuotedCompany
    /\ ret = Text(<<"[", "\"", "A", "\\", "\"", "B", "\"", "]">>)

\* C19 as stated: the result is the serialized list of the company names of
\* all entries at index 1 and later, one name per entry, and it is None exactly
\* when the list has fewer than 2 entries.
C19_PreviousCompaniesOnePerLaterEntry ==
    op = "_extract_previous_companies" =>
        /\ (ret = NoText) <=> (Len(arg) < 2)
        /\ Len(arg) >= 2 =>
              /\ ret # NoText
              /\ json_loads(ret[1]) = LaterCompanies(arg)

(***************************************************************************)
(* Claims about the store, checked under Spec.                             *)
(***************************************************************************)
\* C7: save_extracted_resume is atomic over the resume row and its education
\* rows: once the call has returned or raised, the row and all of its detail
\* rows are stored, or none of them is.
C7_SaveIsAtomic ==
    (last.op = "save_extracted_resume" /\ last.outcome \in {"returned", "raised"}) =>
        \/ /\ get_resume_by_id(last.resume_id) # None
           /\ Cardinality(EducationsOf(last.resume_id)) = last.details
        \/ /\ get_resume_by_id(last.resume_id) = None
           /\ EducationsOf(last.resume_id) = {}

\* C8: after delete_resume_by_id(id, hard=False) on an existing resume the call
\* reports success, get_resume_by_id(id) still returns the row, and the row's
\* deleted_at is not null.
C8_SoftDeleteMarksTheRow ==
    (last.op = "delete_resume_by_id" /\ ~last.hard /\ last.existed) =>
        /\ last.result = TRUE
        /\ get_resume_by_id(last.resume_id) # None
        /\ get_resume_by_id(last.resume_id).deleted_at # NULL

\* C9: after delete_resume_by_id(id, hard=True) on an existing resume,
\* get_resume_by_id(id) returns nothing and no resume_educations row with that
\* resume_id remains.
C9_HardDeleteRemovesDetailRows ==
    (last.op = "delete_resume_by_id" /\ last.hard /\ last.existed /\ last.result) =>
        /\ get_resume_by_id(last.resume_id) = None
        /\ EducationsOf(last.resume_id) = {}

\* C10: in every store state with no save in flight, a resume whose
\* education_level is not null has the education_level of
\* get_final_education(id), the highest of its own detail rows.
C10_SummaryIsHighestDetailRow ==
    saves = {} =>
        \A r \in resumes :
            r.education_level # NULL =>
                /\ get_final_education(r.id) # None
                /\ get_final_education(r.id).education_level = r.education_level

\* C11: once save_extracted_resume has returned, the row get_resume_by_id
\* returns for the returned id has the education_level and the university of
\* the final education process_education_data gives for the same extraction's
\* education list, and both are null when that list is empty.
C11_SummaryIsFinalEducation ==
    (/\ last.op = "save_extracted_resume"
     /\ last.outcome = "returned"
     /\ get_resume_by_id(last.resume_id) # None) =>
        LET final_education ==
                process_education_data(
                    EducationDataList(last.extracted_data)).final_education
            resume == get_resume_by_id(last.resume_id)
        IN  IF last.extracted_data.education = <<>>
            THEN resume.education_level = NULL /\ resume.university = NoText
            ELSE /\ resume.education_level = final_education.education_level
                 /\ resume.university = Text(final_education.institution_name)

C11_Witness ==
    /\ last.op = "save_extracted_resume"
    /\ last.outcome = "returned"
    /\ Len(last.extracted_data.education) = 2
    /\ last.extracted_data.education[1].institution = HankukHighSchool
    /\ get_resume_by_id(last.resume_id) # None
    /\ get_resume_by_id(last.resume_id).education_level = "master"
    /\ get_resume_by_id(last.resume_id).university = Text(SeoulUniversity)

\* C14: delete_all_resumes on a store of N resumes returns N; with hard=False
\* every row is still present and has a non-null deleted_at, with hard=True no
\* resume row remains.
C14_DeleteAllReturnsTheCount ==
    (last.op = "delete_all_resumes" /\ ~last.error) =>
        /\ last.count = last.existed
        /\ last.hard => resumes = {}
        /\ ~last.hard =>
              /\ Cardinality(resumes) = last.existed
              /\ \A r \in resumes : r.deleted_at # NULL

\* A step of delete_resume_by_id or delete_all_resumes.
DeleteStep ==
    \/ HardDeleteResume
    \/ HardDeleteResumeFails
    \/ SoftDeleteResume
    \/ HardDeleteAll
    \/ HardDeleteAllFails
    \/ SoftDeleteAll

\* C18: a delete call never changes a content field: every resume that is
\* stored after the call was stored before it with the same fields, deleted_at
\* aside, and a row leaves the table only in a hard delete.
C18_DeleteKeepsContentFields ==
    [][DeleteStep =>
        /\ \A after \in resumes' :
              \E before \in resumes :
                  [before EXCEPT !.deleted_at = after.deleted_at] = after
        /\ (\E before \in resumes : \A after \in resumes' : after.id # before.id)
              => last'.hard]_vars

\* A failed soft delete of a stored resume, which is still stored.
C18_Witness ==
    /\ last.op = "delete_resume_by_id"
    /\ ~last.hard
    /\ last.existed
    /\ get_resume_by_id(last.resume_id) # None
    /\ get_resume_by_id(last.resume_id).university = Text(SeoulUniversity)
    /\ Cardinality(resumes) = 2

\* The education entries of the extraction a save was called with, as the
\* resolved entries parse_education_info makes of them.
ResolvedOf(extracted_data) ==
    [i \in 1..Len(extracted_data.education) |->
        parse_education_info(EducationDataList(extracted_data)[i])]

\* The detail rows of one resume, in the order of the table.
DetailRowsOf(resume_id) ==
    SelectSeq(educations, LAMBDA row : row.resume_id = resume_id)

\* C24: when save_extracted_resume has returned, table resume_educations holds
\* exactly one row per resolved education entry, with the saved resume's id, the
\* entry's institution name and its resolved level; the resume row it stored
\* has status completed and no deleted_at.
C24_SaveStoresOneDetailRowPerEntry ==
    (last.op = "save_extracted_resume" /\ last.outcome = "returned") =>
        /\ Len(DetailRowsOf(last.resume_id)) = Len(ResolvedOf(last.extracted_data))
        /\ \A i \in 1..Len(DetailRowsOf(last.resume_id)) :
              DetailRowsOf(last.resume_id)[i] =
                  [resume_id |-> last.resume_id,
                   institution_name |-> last.extracted_data.education[i].institution,
                   education_level |->
                       ResolvedOf(last.extracted_data)[i].education_level]
        /\ \A r \in resumes :
              r.id = last.resume_id => r.status = "completed" /\ r.deleted_at = NULL

\* A returned save of two entries: a high-school row and a master row.
C24_Witness ==
    /\ last.op = "save_extracted_resume"
    /\ last.outcome = "returned"
    /\ Len(DetailRowsOf(last.resume_id)) = 2
    /\ DetailRowsOf(last.resume_id)[1].education_level = "high_school"
    /\ DetailRowsOf(last.resume_id)[2].education_level = "master"
    /\ get_resume_by_id(last.resume_id) # None
    /\ get_resume_by_id(last.resume_id).status = "completed"

\* C27: in save_extracted_resume no education entry is skipped: the parsed list
\* has the length and the order of the extraction's education list, the
\* education_level at index i of parsed_data is the resolved level of raw entry
\* i and never the fallback 0, and a returned save has stored as many detail
\* rows as there are raw entries.
C27_NoEducationEntryIsSkipped ==
    /\ \A s \in saves : s.parsed_educations = ResolvedOf(s.extracted_data)
    /\ last.op = "save_extracted_resume" =>
          /\ last.details = Len(last.extracted_data.education)
          /\ \A r \in resumes :
                r.id = last.resume_id =>
                    \A i \in 1..Len(last.extracted_data.education) :
                        /\ r.parsed_data.education[i].education_level # 0
                        /\ r.parsed_data.education[i].education_level =
                              ResolvedOf(last.extracted_data)[i].level_number
          /\ last.outcome = "returned" =>
                Cardinality(EducationsOf(last.resume_id))
                    = Len(last.extracted_data.education)

\* A returned save of two raw entries, the first without a degree: two detail
\* rows, and levels 3 and 5 in parsed_data.
C27_Witness ==
    /\ last.op = "save_extracted_resume"
    /\ last.outcome = "returned"
    /\ Len(last.extracted_data.education) = 2
    /\ last.extracted_data.education[1].degree = <<>>
    /\ Cardinality(EducationsOf(last.resume_id)) = 2
    /\ get_resume_by_id(last.resume_id) # None
    /\ get_resume_by_id(last.resume_id).parsed_data.education[1].education_level = 3
    /\ get_resume_by_id(last.resume_id).parsed_data.education[2].education_level = 5

\* C28: in every store state the resume_id of every row of resume_educations is
\* the id of a row of table resumes, whatever the interleaving of the requests.
C28_DetailRowsReferToStoredResumes ==
    \A i \in 1..Len(educations) : get_resume_by_id(educations[i].resume_id) # None

\* C30: a hard delete that the database does not fail returns True, also for an
\* id no row has, and then the store is as it was.
C30_HardDeleteOfMissingIdReturnsTrue ==
    [][HardDeleteResume =>
        /\ last'.result = TRUE
        /\ ~last'.existed => (resumes' = resumes /\ educations' = educations)]_vars

\* A hard delete of an id that no row of a non-empty table has.
C30_Witness ==
    /\ last.op = "delete_resume_by_id"
    /\ last.hard
    /\ ~last.existed
    /\ last.result
    /\ resumes # {}

(***************************************************************************)
(* Claims about two concurrent requests, checked under SpecPair.           *)
(***************************************************************************)
\* The store and the result after the whole of save_extracted_resume has run
\* on a store, by itself.
SaveAlone(store, plan) ==
    [resumes |-> IF plan.save_fault = "commit" THEN store.resumes
                 ELSE store.resumes \cup {NewResume(2, plan.extracted_data)},
     educations |-> IF plan.save_fault = "none"
                    THEN store.educations
                            \o NewEducations(2, ParsedOf(plan.extracted_data))
                    ELSE store.educations,
     save |-> IF plan.save_fault = "none" THEN "returned" ELSE "raised",
     delete |-> store.delete]

\* The same for delete_resume_by_id(1, hard).
DeleteAlone(store, plan) ==
    [resumes |-> IF plan.hard /\ ~plan.delete_fault
                 THEN DeleteResumeRow(store.resumes, 1) ELSE store.resumes,
     educations |-> store.educations,
     save |-> store.save,
     delete |-> IF plan.hard /\ ~plan.delete_fault THEN "True" ELSE "False"]

\* The store the two requests start from: resume 1 and its detail rows.
PairStart(plan) ==
    [resumes |-> {NewResume(1, plan.stored)},
     educations |-> NewEducations(1, ParsedOf(plan.stored)),
     save |-> "pending", delete |-> "pending"]

PairDone == ret.save # "pending" /\ ret.delete # "pending"

\* C20: a save of a new resume and a delete_resume_by_id of another resume are
\* independent: however their steps interleave, once both have ended the store
\* and the two results are those of the save followed by the delete, and
\* those of the delete followed by the save.
C20_SaveAndDeleteOfAnotherIdCommute ==
    PairDone =>
        LET final == [resumes |-> resumes, educations |-> educations,
                      save |-> ret.save, delete |-> ret.delete]
        IN  /\ final = DeleteAlone(SaveAlone(PairStart(arg), arg), arg)
            /\ final = SaveAlone(DeleteAlone(PairStart(arg), arg), arg)

\* The hard delete of resume 1 ran between the two commits of the save.
C20_Witness ==
    /\ PairDone
    /\ ret.steps = <<"commit", "delete", "refresh", "details">>
    /\ ret.save = "returned"
    /\ ret.delete = "True"
    /\ get_resume_by_id(1) = None
    /\ get_resume_by_id(2) # None
    /\ Cardinality(EducationsOf(2)) = 2

(***************************************************************************)
(* Claims about the read calls, checked under SpecRead.                    *)
(***************************************************************************)
RowsOf(result) == {result[i] : i \in 1..Len(result)}

\* C12: for every integer threshold t passed as the education filter, values
\* above 6 included, get_resumes_with_filters returns only rows whose
\* education tier is at least t.
C12_EducationFilterKeepsTierAtLeast ==
    (/\ last.op = "get_resumes_with_filters"
     /\ ~last.error
     /\ last.max_education_level # NoValue) =>
        \A r \in RowsOf(last.result) :
            /\ r.education_level # NULL
            /\ TierOf(r.education_level) >= last.max_education_level[1]

\* C13: with max_age = a, get_resumes_with_filters returns only rows whose
\* birth_year is at least the year of the query minus a.
C13_AgeFilterKeepsBirthYearAtLeast ==
    (/\ last.op = "get_resumes_with_filters"
     /\ ~last.error
     /\ last.max_age # NoValue) =>
        \A r \in RowsOf(last.result) :
            r.birth_year >= last.current_year[1] - last.max_age[1]

\* A query that returns the younger of two stored persons and not the older.
C13_Witness ==
    /\ last.op = "get_resumes_with_filters"
    /\ ~last.error
    /\ last.max_age = Value(30)
    /\ last.max_education_level = NoValue
    /\ Len(last.result) = 1
    /\ last.result[1].birth_year = 2000
    /\ \E r \in resumes : r.birth_year = 1990

\* What a read call returns when it finds nothing.
NothingFound(call) == IF call.op = "get_resume_by_id" THEN None ELSE <<>>

ReadCalls ==
    {"get_resume_by_id", "get_resumes_by_name", "get_all_resumes",
     "get_resumes_with_filters"}

\* C15: a storage error is a failure the caller can tell from a normal
\* outcome: a read call that hits one does not return what it returns when no
\* record matches, and a delete_resume_by_id that hits one leaves the store
\* unchanged and returns False.
C15_StorageErrorIsDistinguishable ==
    /\ []((last.op \in ReadCalls /\ last.error) => last.result # NothingFound(last))
    /\ [][HardDeleteResumeFails =>
            (UNCHANGED <<resumes, educations>> /\ last'.result = FALSE)]_vars

\* Table resumes with deleted_at set on the rows of the given ids, as a soft
\* delete is meant to leave them.
MarkDeleted(rows, ids) ==
    {[r EXCEPT !.deleted_at = IF r.id \in ids THEN "2026-11-04" ELSE r.deleted_at] :
        r \in rows}

\* A returned row, or None, without regard to its deleted_at.
Unmarked(row) == IF row = None THEN None ELSE [row EXCEPT !.deleted_at = NULL]

UnmarkedAll(result) == [i \in 1..Len(result) |-> Unmarked(result[i])]

\* C29: no read looks at deleted_at: whichever rows of the table have it set,
\* get_resume_by_id, get_resumes_by_name, get_all_resumes and
\* get_resumes_with_filters return the rows they return when none has it set,
\* in the same order.
C29_ReadsIgnoreDeletedAt ==
    (last.op \in ReadCalls /\ ~last.error) =>
        \A ids \in SUBSET {r.id : r \in resumes} :
            LET marked == MarkDeleted(resumes, ids)
            IN  /\ last.op = "get_resume_by_id" =>
                      Unmarked(ResumeWithId(marked, last.resume_id)) = last.result
                /\ last.op = "get_resumes_by_name" =>
                      UnmarkedAll(ResumesNamed(marked, last.name)) = last.result
                /\ last.op = "get_all_resumes" =>
                      UnmarkedAll(ResumesPage(marked, last.limit, last.offset))
                          = last.result
                /\ last.op = "get_resumes_with_filters" =>
                      UnmarkedAll(ResumesFiltered(marked, last.max_age,
                            last.max_education_level, last.limit, last.offset,
                            IF last.current_year # NoValue
                            THEN last.current_year[1] ELSE 0))
                          = last.result

\* A listing of two resumes, which is the listing of the same table with both
\* rows marked as deleted.
C29_Witness ==
    /\ last.op = "get_all_resumes"
    /\ ~last.error
    /\ Len(last.result) = 2
    /\ Cardinality(resumes) = 2
    /\ UnmarkedAll(ResumesPage(MarkDeleted(resumes, {1, 2}), last.limit, last.offset))
          = last.result

(***************************************************************************)
(* Claims about the session of a request, checked under SpecSession.       *)
(***************************************************************************)
HandedOut(r) == sessions[r].pc \notin {"waiting", "done"}

Closed(r) == \E i \in 1..Len(sessions[r].events) : sessions[r].events[i] = "close"

\* rollback() was called on the session, and before its first close().
RolledBackBeforeClosed(r) ==
    \E i \in 1..Len(sessions[r].events) :
        /\ sessions[r].events[i] = "rollback"
        /\ \A j \in 1..i : sessions[r].events[j] # "close"

\* C16: every session handed out for a request is eventually closed, whether
\* the handler returns, raises HTTPException or raises another exception, and
\* the session of a request that raised is rolled back before it is closed.
C16_SessionIsClosedAndRolledBack ==
    /\ \A r \in Requests : HandedOut(r) ~> Closed(r)
    /\ [](\A r \in Requests :
            (Closed(r) /\ sessions[r].raised # "no") => RolledBackBeforeClosed(r))

(***************************************************************************)
(* Claims about the extract-and-save request, checked under SpecUpload.    *)
(***************************************************************************)
\* C23: the extract-and-save request writes the store only after the
\* extraction reported success: a step that changes a table belongs to a
\* request whose extraction succeeded, and a request whose extraction returned
\* success=False or raised ends with an error status and both tables as they
\* were when it came in.
C23_StoreWrittenOnlyAfterExtractionSucceeded ==
    /\ []((ret.pc = "responded" /\ ret.extraction \in {"failure", "raised"}) =>
            /\ ret.status_code \in {400, 422}
            /\ resumes = ret.before.resumes
            /\ educations = ret.before.educations)
    /\ [][(resumes' # resumes \/ educations' # educations) =>
            (ret.extraction = "success" /\ ret.pc \in {"save", "details"})]_vars

\* After a stored resume, a request whose extraction returned success=False:
\* 422, and the table still holds that one resume.
C23_Witness ==
    /\ ret.pc = "responded"
    /\ ret.extraction = "failure"
    /\ ret.status_code = 422
    /\ Cardinality(resumes) = 1
    /\ resumes = ret.before.resumes
    /\ Len(educations) = 2

=============================================================================
